---- MODULE Spec2Model ----
(***************************************************************************)
(* A model of notalib/date.py: parse_date, normalize_date, the two week    *)
(* extractors and get_week.  Strings are sequences of one-character        *)
(* strings, a date format is a sequence of arrow tokens, a date is a       *)
(* record [year, month, day].                                              *)
(***************************************************************************)
EXTENDS Integers, Sequences, FiniteSets, TLC

VARIABLES pc, fn, s, format_or_formats, output_format, allow_empty,
          i, tried, parsed, date_object, mode, mode_given, extractor, result

vars == <<pc, fn, s, format_or_formats, output_format, allow_empty,
          i, tried, parsed, date_object, mode, mode_given, extractor, result>>

(* ------------------------------ bounds --------------------------------- *)

\* Years 1..EarlyYears (the bottom of datetime's range) are modelled.
EarlyYears == 2

\* Years FirstYear..LastYear are modelled as well.
FirstYear == 2015

LastYear == 2020

\* Longest list of candidate formats passed to parse_date.
MaxFormats == 2

(* ------------------------- calendar (datetime) ------------------------- *)

Years == (1..EarlyYears) \cup (FirstYear..LastYear)

IsLeap(y) == (y % 4 = 0) /\ ((y % 100 # 0) \/ (y % 400 = 0))

DaysInMonth(y, m) ==
    IF m = 2 THEN (IF IsLeap(y) THEN 29 ELSE 28)
    ELSE IF m \in {4, 6, 9, 11} THEN 30 ELSE 31

\* datetime.date(year, month, day) accepts exactly these triples.
ValidDate(y, m, d) ==
    /\ y \in 1..9999
    /\ m \in 1..12
    /\ d \in 1..DaysInMonth(y, m)

MkDate(y, m, d) == [year |-> y, month |-> m, day |-> d]

Dates == { dt \in [year : Years, month : 1..12, day : 1..31] :
              ValidDate(dt.year, dt.month, dt.day) }

DaysBeforeYear(y) ==
    (y - 1) * 365 + ((y - 1) \div 4) - ((y - 1) \div 100) + ((y - 1) \div 400)

RECURSIVE DaysBeforeMonth(_, _)
DaysBeforeMonth(y, m) ==
    IF m = 1 THEN 0 ELSE DaysBeforeMonth(y, m - 1) + DaysInMonth(y, m - 1)

\* date.toordinal(): 1 for 0001-01-01.
ToOrdinal(dt) == DaysBeforeYear(dt.year) + DaysBeforeMonth(dt.year, dt.month) + dt.day

\* date.weekday(): Monday is 0, Sunday is 6.
Weekday(dt) == (ToOrdinal(dt) + 6) % 7

\* tm_yday: 0 for January 1st.
YDay(dt) == DaysBeforeMonth(dt.year, dt.month) + dt.day - 1

(* ------------------------ characters and digits ------------------------ *)

DigitVal == ("0" :> 0) @@ ("1" :> 1) @@ ("2" :> 2) @@ ("3" :> 3) @@ ("4" :> 4)
            @@ ("5" :> 5) @@ ("6" :> 6) @@ ("7" :> 7) @@ ("8" :> 8) @@ ("9" :> 9)

DigitChar == <<"0", "1", "2", "3", "4", "5", "6", "7", "8", "9">>

IsDigit(c) == c \in DOMAIN DigitVal

\* int(text) for a sequence of decimal digits.
RECURSIVE ToInt(_)
ToInt(cs) ==
    IF cs = <<>> THEN 0
    ELSE 10 * ToInt(SubSeq(cs, 1, Len(cs) - 1)) + DigitVal[cs[Len(cs)]]

\* n rendered in exactly w digits, zero padded (n < 10^w).
RECURSIVE Pad(_, _)
Pad(n, w) ==
    IF w = 0 THEN <<>> ELSE Append(Pad(n \div 10, w - 1), DigitChar[(n % 10) + 1])

AllDigits(cs) == \A k \in 1..Len(cs) : IsDigit(cs[k])

(* ------------------------------ arrow ---------------------------------- *)

TokenWidth(t) == IF t = "YYYY" THEN 4 ELSE IF t \in {"MM", "DD"} THEN 2 ELSE 1

\* Matches the characters cs against the tokens ts from left to right; acc
\* collects the fields read so far.  ok is FALSE when the text does not have
\* the shape of the format.
RECURSIVE MatchTokens(_, _, _)
MatchTokens(cs, ts, acc) ==
    IF ts = <<>> THEN [acc EXCEPT !.ok = (cs = <<>>)]
    ELSE LET t == Head(ts)
             w == TokenWidth(t)
         IN IF Len(cs) < w THEN [acc EXCEPT !.ok = FALSE]
            ELSE LET part == SubSeq(cs, 1, w)
                     rest == SubSeq(cs, w + 1, Len(cs))
                 IN IF t = "YYYY"
                    THEN IF AllDigits(part)
                         THEN MatchTokens(rest, Tail(ts), [acc EXCEPT !.year = ToInt(part)])
                         ELSE [acc EXCEPT !.ok = FALSE]
                    ELSE IF t = "MM"
                    THEN IF AllDigits(part)
                         THEN MatchTokens(rest, Tail(ts), [acc EXCEPT !.month = ToInt(part)])
                         ELSE [acc EXCEPT !.ok = FALSE]
                    ELSE IF t = "DD"
                    THEN IF AllDigits(part)
                         THEN MatchTokens(rest, Tail(ts), [acc EXCEPT !.day = ToInt(part)])
                         ELSE [acc EXCEPT !.ok = FALSE]
                    ELSE IF part = <<t>>
                         THEN MatchTokens(rest, Tail(ts), acc)
                         ELSE [acc EXCEPT !.ok = FALSE]

Returned(v) == [kind |-> "value", exc |-> "", val |-> v]

ReturnedNone == [kind |-> "none", exc |-> "", val |-> <<>>]

Raised(e) == [kind |-> "raise", exc |-> e, val |-> <<>>]

Pending == [kind |-> "pending", exc |-> "", val |-> <<>>]

\* arrow.get(s, f): a TypeError when s is not a string; otherwise the text is
\* matched against the format, fields the format lacks default to 1, and the
\* date is built; a mismatch or an impossible date is a ValueError.
ArrowGet(str, f) ==
    IF str.isNone THEN Raised("TypeError")
    ELSE LET m == MatchTokens(str.chars, f, [ok |-> TRUE, year |-> 1, month |-> 1, day |-> 1])
         IN IF m.ok /\ ValidDate(m.year, m.month, m.day)
            THEN Returned(MkDate(m.year, m.month, m.day))
            ELSE Raised("ValueError")

\* Arrow.format(fmt): every token is replaced by its zero-padded field, any
\* other character is copied.
RECURSIVE ArrowFormat(_, _)
ArrowFormat(dt, ts) ==
    IF ts = <<>> THEN <<>>
    ELSE LET t == Head(ts)
             out == IF t = "YYYY" THEN Pad(dt.year, 4)
                    ELSE IF t = "MM" THEN Pad(dt.month, 2)
                    ELSE IF t = "DD" THEN Pad(dt.day, 2)
                    ELSE <<t>>
         IN out \o ArrowFormat(dt, Tail(ts))

(* ------------------------------ inputs --------------------------------- *)

Str(cs) == [isNone |-> FALSE, chars |-> cs]

None == [isNone |-> TRUE, chars |-> <<>>]

Strings ==
    { Str(<<"2", "0", "2", "1", "-", "0", "5", "-", "0", "1">>),
      Str(<<"b", "a", "d">>),
      Str(<<"0", "1", "-", "0", "2", "-", "2", "0", "0", "3">>),
      Str(<<"1", "3", "-", "0", "2", "-", "2", "0", "0", "3">>),
      Str(<<"2", "0", "2", "1", "-", "0", "2", "-", "3", "0">>),
      Str(<<>>) }

YMD == <<"YYYY", "-", "MM", "-", "DD">>

DMY == <<"DD", "-", "MM", "-", "YYYY">>

MDY == <<"MM", "-", "DD", "-", "YYYY">>

YMDSlash == <<"YYYY", "/", "MM", "/", "DD">>

Formats == {YMD, DMY, MDY, YMDSlash}

FormatLists == UNION { [1..n -> Formats] : n \in 0..MaxFormats }

\* A DateFormats argument: one format string, or a list / tuple of them.
FormatArgs == { [single |-> TRUE, items |-> <<f>>] : f \in Formats }
                \cup { [single |-> FALSE, items |-> l] : l \in FormatLists }

\* ensure_iterable: a list or tuple is iterated as it is, a single format is
\* wrapped into a one-element list.
ensure_iterable(x) == IF x.single THEN <<x.items[1]>> ELSE x.items

(* --------------------------- week extraction --------------------------- *)

Week(w, y) == [week |-> w, year |-> y]

\* The members of the WeekNumbering enumeration.
NORMAL == [cls |-> "WeekNumbering", name |-> "NORMAL"]

MATCH_YEAR == [cls |-> "WeekNumbering", name |-> "MATCH_YEAR"]

\* Values a caller can pass as mode: the two members, and values of other
\* types (the integer 1, the string 'NORMAL').
Modes == {NORMAL, MATCH_YEAR, [cls |-> "int", name |-> "1"], [cls |-> "str", name |-> "NORMAL"]}

\* A variant of the week number that starts weeks on Sunday (strftime('%U')).
StrftimeU(dt) == Pad((YDay(dt) + 7 - ((Weekday(dt) + 1) % 7)) \div 7, 2)

\* date.strftime('%W'): the week of the year as two digits, weeks starting on
\* Monday, the days before the first Monday being week 00.
StrftimeW(dt) == Pad((YDay(dt) + 7 - Weekday(dt)) \div 7, 2)

MatchYearWeekExtractor_extract(dt) == Week(ToInt(StrftimeW(dt)), dt.year)

\* datetime.date(y, m, d) as a call that may raise.
DateCtor(y, m, d) == IF ValidDate(y, m, d) THEN Returned(MkDate(y, m, d)) ELSE Raised("ValueError")

\* A variant without the fallback to the previous year.
NormalNoFallback(dt) == Returned(MatchYearWeekExtractor_extract(dt))

\* A variant whose fallback keeps the year of the date itself.
NormalKeepYear(dt) ==
    LET week == MatchYearWeekExtractor_extract(dt)
    IN IF week.week = 0
       THEN LET prev == DateCtor(dt.year - 1, 12, 31)
            IN IF prev.kind = "raise" THEN prev
               ELSE Returned(Week(MatchYearWeekExtractor_extract(prev.val).week, dt.year))
       ELSE Returned(week)

NormalWeekExtractor_extract(dt) ==
    LET week == MatchYearWeekExtractor_extract(dt)
    IN IF week.week = 0
       THEN LET prev == DateCtor(dt.year - 1, 12, 31)
            IN IF prev.kind = "raise" THEN prev
               ELSE Returned(MatchYearWeekExtractor_extract(prev.val))
       ELSE Returned(week)

(* ------------------------------- state --------------------------------- *)

NoFormats == [single |-> FALSE, items |-> <<>>]

Init ==
    /\ pc = "idle"
    /\ fn = "none"
    /\ s = None
    /\ format_or_formats = NoFormats
    /\ output_format = <<>>
    /\ allow_empty = TRUE
    /\ i = 1
    /\ tried = <<>>
    /\ parsed = Pending
    /\ date_object = MkDate(1, 1, 1)
    /\ mode = NORMAL
    /\ mode_given = FALSE
    /\ extractor = "none"
    /\ result = Pending

parseVars == <<s, format_or_formats, output_format, allow_empty>>

weekVars == <<date_object, mode, mode_given, extractor>>

(* ----------------------------- parse_date ------------------------------ *)

\* A caller invokes parse_date(s, format_or_formats) with a string.
ParseDateCall ==
    /\ pc = "idle"
    /\ \E str \in Strings, fa \in FormatArgs :
          /\ s' = str
          /\ format_or_formats' = fa
    /\ fn' = "parse_date"
    /\ pc' = "parse_loop"
    /\ i' = 1
    /\ UNCHANGED <<output_format, allow_empty, tried, parsed, result>>
    /\ UNCHANGED weekVars

\* A variant of the loop body that gives up at the first format that fails.
ParseTryAbort ==
    /\ pc = "parse_loop"
    /\ i <= Len(ensure_iterable(format_or_formats))
    /\ LET f == ensure_iterable(format_or_formats)[i]
           r == ArrowGet(s, f)
       IN /\ tried' = Append(tried, f)
          /\ parsed' = r
          /\ pc' = "parse_ret"
          /\ i' = i
    /\ UNCHANGED <<fn, result>>
    /\ UNCHANGED parseVars
    /\ UNCHANGED weekVars

\* A variant of the loop body that keeps going after a success, so that the
\* last format that parses wins.
ParseTryLastWins ==
    /\ pc = "parse_loop"
    /\ i <= Len(ensure_iterable(format_or_formats))
    /\ LET it == ensure_iterable(format_or_formats)
           f == it[i]
           r == ArrowGet(s, f)
       IN /\ tried' = Append(tried, f)
          /\ parsed' = IF r.kind = "value" THEN r ELSE parsed
          /\ IF r.kind = "raise" /\ r.exc # "ValueError"
             THEN pc' = "parse_ret" /\ parsed' = r /\ i' = i
             ELSE /\ i' = i + 1
                  /\ pc' = IF i = Len(it) /\ parsed'.kind = "value"
                           THEN "parse_ret" ELSE "parse_loop"
    /\ UNCHANGED <<fn, result>>
    /\ UNCHANGED parseVars
    /\ UNCHANGED weekVars

\* One iteration of the loop: the next format is tried; a parsed date is
\* returned at once, a ValueError is swallowed and the loop goes on, any
\* other exception leaves parse_date.
ParseTry ==
    /\ pc = "parse_loop"
    /\ i <= Len(ensure_iterable(format_or_formats))
    /\ LET f == ensure_iterable(format_or_formats)[i]
           r == ArrowGet(s, f)
       IN /\ tried' = Append(tried, f)
          /\ IF r.kind = "raise" /\ r.exc = "ValueError"
             THEN /\ i' = i + 1
                  /\ pc' = "parse_loop"
                  /\ parsed' = parsed
             ELSE /\ i' = i
                  /\ pc' = "parse_ret"
                  /\ parsed' = r
    /\ UNCHANGED <<fn, result>>
    /\ UNCHANGED parseVars
    /\ UNCHANGED weekVars

\* The loop ran out of formats.
ParseExhausted ==
    /\ pc = "parse_loop"
    /\ i > Len(ensure_iterable(format_or_formats))
    /\ parsed' = Raised("ValueError")
    /\ pc' = "parse_ret"
    /\ UNCHANGED <<fn, i, tried, result>>
    /\ UNCHANGED parseVars
    /\ UNCHANGED weekVars

\* parse_date was the function called: its outcome is the caller's.
ParseDateReturn ==
    /\ pc = "parse_ret"
    /\ fn = "parse_date"
    /\ result' = parsed
    /\ pc' = "done"
    /\ UNCHANGED <<fn, i, tried, parsed>>
    /\ UNCHANGED parseVars
    /\ UNCHANGED weekVars

(* --------------------------- normalize_date ---------------------------- *)

NormalizeDateCall ==
    /\ pc = "idle"
    /\ \E str \in Strings \cup {None}, fa \in FormatArgs, out \in Formats, ae \in BOOLEAN :
          /\ s' = str
          /\ format_or_formats' = fa
          /\ output_format' = out
          /\ allow_empty' = ae
    /\ fn' = "normalize_date"
    /\ pc' = "normalize_check"
    /\ UNCHANGED <<i, tried, parsed, result>>
    /\ UNCHANGED weekVars

\* A variant of the guard that forgets allow_empty.
NormalizeCheckAlways ==
    /\ pc = "normalize_check"
    /\ IF s.isNone
       THEN /\ result' = ReturnedNone
            /\ pc' = "done"
       ELSE /\ result' = result
            /\ pc' = "parse_loop"
    /\ UNCHANGED <<fn, i, tried, parsed>>
    /\ UNCHANGED parseVars
    /\ UNCHANGED weekVars

\* The guard: None is returned for an absent date that may be absent,
\* otherwise parse_date is called.
NormalizeCheck ==
    /\ pc = "normalize_check"
    /\ IF s.isNone /\ allow_empty
       THEN /\ result' = ReturnedNone
            /\ pc' = "done"
       ELSE /\ result' = result
            /\ pc' = "parse_loop"
    /\ UNCHANGED <<fn, i, tried, parsed>>
    /\ UNCHANGED parseVars
    /\ UNCHANGED weekVars

\* parse_date came back to normalize_date: an exception propagates, a date
\* is rendered in the output format.
NormalizeFormat ==
    /\ pc = "parse_ret"
    /\ fn = "normalize_date"
    /\ result' = IF parsed.kind = "raise" THEN parsed
                 ELSE Returned(ArrowFormat(parsed.val, output_format))
    /\ pc' = "done"
    /\ UNCHANGED <<fn, i, tried, parsed>>
    /\ UNCHANGED parseVars
    /\ UNCHANGED weekVars

(* ------------------------------ get_week ------------------------------- *)

\* A caller invokes get_week(date_object) or get_week(date_object, mode).
GetWeekCall ==
    /\ pc = "idle"
    /\ \E d \in Dates, given \in BOOLEAN, m \in Modes :
          /\ date_object' = d
          /\ mode_given' = given
          /\ mode' = IF given THEN m ELSE NORMAL
    /\ fn' = "get_week"
    /\ pc' = "get_week_check"
    /\ UNCHANGED <<extractor, i, tried, parsed, result>>
    /\ UNCHANGED parseVars

\* A variant without the isinstance test.
GetWeekCheckMissing ==
    /\ pc = "get_week_check"
    /\ pc' = "get_week_dispatch"
    /\ UNCHANGED <<fn, i, tried, parsed, result>>
    /\ UNCHANGED parseVars
    /\ UNCHANGED weekVars

\* The isinstance test on mode.
GetWeekCheck ==
    /\ pc = "get_week_check"
    /\ IF mode.cls # "WeekNumbering"
       THEN /\ result' = Raised("TypeError")
            /\ pc' = "done"
       ELSE /\ result' = result
            /\ pc' = "get_week_dispatch"
    /\ UNCHANGED <<fn, i, tried, parsed>>
    /\ UNCHANGED parseVars
    /\ UNCHANGED weekVars

\* The dispatch on mode.
GetWeekDispatch ==
    /\ pc = "get_week_dispatch"
    /\ IF mode = NORMAL
       THEN /\ extractor' = "NormalWeekExtractor"
            /\ result' = NormalWeekExtractor_extract(date_object)
       ELSE IF mode = MATCH_YEAR
       THEN /\ extractor' = "MatchYearWeekExtractor"
            /\ result' = Returned(MatchYearWeekExtractor_extract(date_object))
       ELSE /\ extractor' = extractor
            /\ result' = Raised("NotImplementedError")
    /\ pc' = "done"
    /\ UNCHANGED <<fn, i, tried, parsed, date_object, mode, mode_given>>
    /\ UNCHANGED parseVars

Next ==
    \/ ParseDateCall
    \/ ParseTry
    \/ ParseExhausted
    \/ ParseDateReturn
    \/ NormalizeDateCall
    \/ NormalizeCheck
    \/ NormalizeFormat
    \/ GetWeekCall
    \/ GetWeekCheck
    \/ GetWeekDispatch

Spec == Init /\ [][Next]_vars

(* ------------------------ properties: parse_date ----------------------- *)

ParseCall == fn \in {"parse_date", "normalize_date"}

ParseReturned == ParseCall /\ pc \in {"parse_ret", "done"} /\ parsed.kind # "pending"

Parses(str, f) == ArrowGet(str, f).kind = "value"

\* C1: parse_date tries the formats strictly in the given order and returns
\* the parse result of the first format (lowest index) that parses s: the
\* formats tried so far are always a prefix of the candidates, none of them
\* but the last one parses s, and a returned date is the parse of the last
\* format tried, so that no format after the first successful one is tried
\* and a later format that also parses s never determines the result.
C1_FirstFormatWins ==
    ParseCall =>
        LET it == ensure_iterable(format_or_formats)
            n == Len(tried)
        IN /\ n <= Len(it)
           /\ tried = SubSeq(it, 1, n)
           /\ \A j \in 1..(n - 1) : ~Parses(s, it[j])
           /\ (pc = "parse_loop" /\ n >= 1) => ~Parses(s, it[n])
           /\ (ParseReturned /\ parsed.kind = "value") =>
                 /\ n >= 1
                 /\ parsed = ArrowGet(s, it[n])
           /\ (fn = "parse_date" /\ pc = "done") => result = parsed

\* parse_date returned the result of the first format although the last
\* candidate, never tried, parses s to another date.
C1_Witness ==
    /\ fn = "parse_date"
    /\ pc = "done"
    /\ result.kind = "value"
    /\ LET it == ensure_iterable(format_or_formats)
       IN /\ Len(tried) < Len(it)
          /\ Parses(s, it[Len(it)])
          /\ ArrowGet(s, it[Len(it)]) # result

\* C2: for a string s, parse_date fails with the ValueError if and only if
\* none of the candidate formats parses s, and only after every candidate
\* has been tried once, in order (a failure of an earlier format does not
\* abort the loop); an empty sequence of formats always yields the
\* ValueError.
C2_ValueErrorIffNoneParses ==
    (ParseReturned /\ ~s.isNone) =>
        LET it == ensure_iterable(format_or_formats)
        IN /\ (parsed = Raised("ValueError")) <=> (\A k \in 1..Len(it) : ~Parses(s, it[k]))
           /\ (parsed = Raised("ValueError")) => tried = it
           /\ (it = <<>>) => parsed = Raised("ValueError")
           /\ parsed.kind = "raise" => parsed.exc = "ValueError"

\* parse_date raised the ValueError after trying two formats.
C2_Witness ==
    /\ fn = "parse_date"
    /\ pc = "done"
    /\ result = Raised("ValueError")
    /\ Len(tried) = 2

(* ---------------------- properties: normalize_date --------------------- *)

\* The indexes of the candidate formats that parse str.
ParsingIndexes(str, it) == { k \in 1..Len(it) : Parses(str, it[k]) }

Lowest(S) == CHOOSE k \in S : \A j \in S : k <= j

\* C3: normalize_date returns None exactly when s is None and allow_empty is
\* true, and then the formats are not consulted; in every other case
\* (s is None with allow_empty false and the empty string included) it
\* returns the date parse_date finds, rendered in output_format, or fails
\* exactly when, and as, parse_date fails on the same s and formats.
C3_NoneOnlyWhenAllowed ==
    (fn = "normalize_date" /\ pc = "done") =>
        LET it == ensure_iterable(format_or_formats)
            ok == ParsingIndexes(s, it)
        IN /\ (result.kind = "none") <=> (s.isNone /\ allow_empty)
           /\ (result.kind = "none") => (tried = <<>> /\ parsed = Pending)
           /\ (result.kind # "none") =>
                 /\ parsed.kind \in {"value", "raise"}
                 /\ (result.kind = "raise") <=> (parsed.kind = "raise")
                 /\ (result.kind = "raise") <=> (ok = {})
                 /\ (parsed.kind = "raise") => result = parsed
                 /\ (ok # {}) =>
                       result = Returned(ArrowFormat(ArrowGet(s, it[Lowest(ok)]).val,
                                                     output_format))

\* normalize_date returned None although formats were given.
C3_Witness ==
    /\ fn = "normalize_date"
    /\ pc = "done"
    /\ result = ReturnedNone
    /\ s.isNone
    /\ Len(ensure_iterable(format_or_formats)) = 2

(* ------------------------- properties: get_week ------------------------ *)

NormalDone == fn = "get_week" /\ pc = "done" /\ extractor = "NormalWeekExtractor"

MatchYearDone == fn = "get_week" /\ pc = "done" /\ extractor = "MatchYearWeekExtractor"

\* The ordinal of the Monday that starts the Monday-Sunday week of dt.
MondayOf(dt) == ToOrdinal(dt) - Weekday(dt)

SameWeek(a, b) == MondayOf(a) = MondayOf(b)

\* The dates of the year of dt up to dt that are Mondays.
MondaysUpTo(dt) ==
    { e \in [year : {dt.year}, month : 1..12, day : 1..31] :
         /\ ValidDate(e.year, e.month, e.day)
         /\ ToOrdinal(e) <= ToOrdinal(dt)
         /\ Weekday(e) = 0 }

\* C4: NormalWeekExtractor.extract(d), and so get_week(d, NORMAL), never
\* returns week 0: a returned week number is in 1..53.
C4_NormalNeverZero ==
    (NormalDone /\ result.kind = "value") => result.val.week \in 1..53

\* NORMAL was asked for a date before the first Monday of its year.
C4_Witness ==
    /\ NormalDone
    /\ result.kind = "value"
    /\ MatchYearWeekExtractor_extract(date_object).week = 0

C7_NormalRefinesMatchYear ==
    NormalDone =>
        LET m == MatchYearWeekExtractor_extract(date_object)
        IN IF m.week # 0
           THEN result = Returned(m)
           ELSE /\ result = Returned(MatchYearWeekExtractor_extract(
                                        MkDate(date_object.year - 1, 12, 31)))
                /\ result.val.year = date_object.year - 1

\* NORMAL fell back to a previous year that has a week 53.
C7_Witness ==
    /\ NormalDone
    /\ MatchYearWeekExtractor_extract(date_object).week = 0
    /\ result.kind = "value"
    /\ result.val.week = 53

\* C8: get_week raises TypeError whenever mode is not a WeekNumbering member,
\* before any extractor is called; NORMAL goes to NormalWeekExtractor,
\* MATCH_YEAR to MatchYearWeekExtractor, an omitted mode is NORMAL, and the
\* NotImplementedError is never raised.
C8_Dispatch ==
    /\ (fn = "get_week" /\ pc # "done") => extractor = "none"
    /\ (fn = "get_week" /\ pc = "done") =>
          /\ (mode.cls # "WeekNumbering") =>
                (result = Raised("TypeError") /\ extractor = "none")
          /\ (mode = NORMAL) =>
                /\ extractor = "NormalWeekExtractor"
                /\ result = NormalWeekExtractor_extract(date_object)
          /\ (mode = MATCH_YEAR) =>
                /\ extractor = "MatchYearWeekExtractor"
                /\ result = Returned(MatchYearWeekExtractor_extract(date_object))
          /\ (~mode_given) => (mode = NORMAL /\ extractor = "NormalWeekExtractor")
          /\ result # Raised("NotImplementedError")

\* get_week was given the string 'NORMAL' as mode and raised TypeError.
C8_Witness ==
    /\ fn = "get_week"
    /\ pc = "done"
    /\ mode.cls = "str"
    /\ result = Raised("TypeError")

\* C9: NormalWeekExtractor.extract never fails: the fallback is taken only
\* for a date before the first Monday of its year, and no date of year 1,
\* whose January 1st is a Monday, is such a date, so December 31 of year 0 is
\* never constructed.
C9_NormalNeverFails ==
    NormalDone =>
        /\ result.kind = "value"
        /\ (result.val.year # date_object.year) =>
              Cardinality(MondaysUpTo(date_object)) = 0
        /\ (date_object.year = 1) =>
              /\ MatchYearWeekExtractor_extract(date_object).week # 0
              /\ result.val.year = 1

\* NORMAL was asked for the first day of year 1.
C9_Witness ==
    /\ NormalDone
    /\ date_object = MkDate(1, 1, 1)
    /\ result.kind = "value"

\* NormalWeekExtractor.extract of every modelled date, paired with the Monday
\* that starts the date's week.
NormalLabels == { <<NormalWeekExtractor_extract(d), MondayOf(d)>> : d \in Dates }

\* C10: under NORMAL numbering two dates get the same Week if and only if
\* they lie in the same Monday-Sunday week, weeks that straddle a year
\* boundary included: the Week returned for date_object is the Week of a
\* modelled date d2 exactly when both have the same Monday.
C10_NormalLabelsWeeks ==
    NormalDone =>
        LET monday == MondayOf(date_object)
        IN \A p \in NormalLabels : (result = p[1]) <=> (monday = p[2])

\* NORMAL was asked for a January date whose week began in the old year, and
\* a December date of that week is modelled.
C10_Witness ==
    /\ NormalDone
    /\ date_object.month = 1
    /\ result.kind = "value"
    /\ result.val.year = date_object.year - 1
    /\ \E d2 \in Dates : d2.year = date_object.year - 1 /\ SameWeek(date_object, d2)

====
